---- MODULE Spec2Model ----
(***************************************************************************)
(* The message store of the AI text processor (React component App).       *)
(*                                                                         *)
(* The repository holds two revisions of the component:                    *)
(*   build = "jsx"    src/src/App.jsx                                      *)
(*   build = "part0"  src/unnamed/part_000                                 *)
(* Both are modelled; the actions branch on `build` where the revisions    *)
(* differ.                                                                 *)
(*                                                                         *)
(* JavaScript values:                                                      *)
(*   - a string is a sequence of one-token strings (<<" ", "a">>);         *)
(*   - null and undefined (both falsy, never distinguished by the code)    *)
(*     are the value Null;                                                 *)
(*   - an object lives in `heap` and is referred to by its position; a     *)
(*     message list is a sequence of such references, 0 being a hole of a  *)
(*     sparse array;                                                       *)
(*   - a missing property is a field outside the record's DOMAIN.          *)
(* An event handler is a closure of the render it was created in: when it  *)
(* is triggered it reads the state of that render, and it keeps reading    *)
(* those values after its awaits (the task's `messages`, `text`, ...).     *)
(***************************************************************************)
EXTENDS Integers, Sequences, FiniteSets, TLC

VARIABLES
    build,             \* which revision runs
    ai,                \* the capabilities self.ai exposes
    messages,          \* useState([]): the list, as heap references
    heap,              \* the message objects ever created
    inputText,         \* useState(""): the draft (userInput in part_000)
    selectedLanguage,  \* useState("en") (selectedTargetLanguage in part_000)
    error,             \* useState(""): the error slot
    tasks,             \* the handlers suspended at an await, oldest first
    crashed,           \* a render threw: the component is unmounted
    submitted,         \* history: the texts submitted, in trigger order
    last               \* history: the step that led to this state

vars == <<build, ai, messages, heap, inputText, selectedLanguage, error,
          tasks, crashed, submitted, last>>

----------------------------------------------------------------------------
\* Bounds of the model.

\* Submits of a non-blank draft per run.
MaxSubmits == 2

\* Handlers suspended at an await at the same time.
MaxInFlight == 2

\* Message objects per run: no handler that may create one is triggered
\* once the objects and the suspended handlers together reach it.
MaxObjects == 3

\* The same two bounds for the deeper runs of one revision in one host,
\* with the actions the run is about (SpecStale).
MaxSubmitsStale == 3

MaxObjectsStale == 4

----------------------------------------------------------------------------
\* Program constants and values.

\* msg.text.length > 150
SummarizeMinLen == 150

Builds == {"jsx", "part0"}

Capabilities == {"languageDetector", "summarizer", "translator"}

Null == <<"null">>

EmptyString == <<>>

Hole == 0

Whitespace == {" "}

En == <<"e", "n">>

Fr == <<"f", "r">>

\* language: detectedLanguage || "Unknown"
Unknown == <<"U", "n", "k", "n", "o", "w", "n">>

\* The <option> values of the target-language <select> the model selects.
TargetLanguages == {En, Fr}

\* What the model types into the textarea: white space only, a text of
\* exactly 150 characters that starts with a blank, and one of 151.
Long(first, n) == [i \in 1..n |-> IF i = 1 THEN first ELSE "a"]

Drafts == {<<" ">>, Long(" ", SummarizeMinLen), Long("a", SummarizeMinLen + 1)}

\* What detector.detect may resolve to: the detected languages, best first.
DetectResults == {<<>>, <<En>>, <<Fr>>}

\* The external summarizer and translator, as functions of their input.
SummaryOf(text) == <<"S">> \o text

TranslationOf(text, sourceLang, targetLang) == <<"T">> \o targetLang \o text

\* What summarizer.summarize(text) may resolve to.
SummarizeResults(text) == {EmptyString, SummaryOf(text)}

\* What translator.translate(text) may resolve to.
TranslateResults(text, sourceLang, targetLang) ==
    {EmptyString, TranslationOf(text, sourceLang, targetLang)}

----------------------------------------------------------------------------
\* JavaScript primitives.

\* Truthiness of a string-or-null value.
Truthy(v) == v /= Null /\ v /= EmptyString

RECURSIVE TrimStart(_)
TrimStart(s) ==
    IF s /= <<>> /\ Head(s) \in Whitespace THEN TrimStart(Tail(s)) ELSE s

RECURSIVE TrimEnd(_)
TrimEnd(s) ==
    IF s /= <<>> /\ s[Len(s)] \in Whitespace
    THEN TrimEnd(SubSeq(s, 1, Len(s) - 1))
    ELSE s

\* Mutant of Trim: the draft is tested as typed (`if (!inputText)`).
NoTrim(s) == s

\* String.prototype.trim
Trim(s) == TrimEnd(TrimStart(s))

\* Mutant of Spread: the new value is added to the one the field holds.
SpreadAccumulating(ref, field, value) ==
    LET dom == IF ref = Hole THEN {} ELSE DOMAIN heap[ref]
    IN  [f \in dom \cup {field} |->
            IF f /= field THEN heap[ref][f]
            ELSE IF f \in dom /\ Truthy(heap[ref][f])
                 THEN heap[ref][f] \o value
                 ELSE value]

\* { ...obj, [field]: value }; obj may be undefined (a hole, or an index
\* past the end), which spreads to nothing.
Spread(ref, field, value) ==
    LET dom == IF ref = Hole THEN {} ELSE DOMAIN heap[ref]
    IN  [f \in dom \cup {field} |-> IF f = field THEN value ELSE heap[ref][f]]

\* arr[index], undefined (Hole) past the end.
At(arr, index) == IF index \in 1..Len(arr) THEN arr[index] ELSE Hole

\* arr[index] = ref on a copy of arr; an index past the end leaves holes.
SetAt(arr, index, ref) ==
    [i \in 1..(IF index > Len(arr) THEN index ELSE Len(arr)) |->
        IF i = index THEN ref ELSE At(arr, i)]

----------------------------------------------------------------------------
\* The component's helpers.

\* "ai" in self && name in self.ai
Supported(name) == name \in ai

Capability(kind) ==
    CASE kind = "submit" -> "languageDetector"
      [] kind = "summarize" -> "summarizer"
      [] kind = "translate" -> "translator"

\* What detectLanguage returns. outcome: "absent" (the capability check
\* failed), "raise" (create or detect threw), "resolved" (detect gave raw).
detectLanguage(outcome, raw) ==
    IF outcome = "resolved" /\ raw /= <<>>
    THEN IF build = "jsx" \/ Truthy(raw[1]) THEN raw[1] ELSE Null
    ELSE Null

\* What summarizeText returns.
summarizeText(outcome, raw) ==
    CASE outcome = "absent" -> Null
      [] outcome = "raise" ->
            IF build = "jsx" THEN <<"Error in summarization">> ELSE Null
      [] outcome = "resolved" ->
            IF Truthy(raw) THEN raw
            ELSE IF build = "jsx" THEN <<"Summarization failed">>
                 ELSE <<"Failed to generate summary.">>

\* What translateText returns.
translateText(outcome, raw) ==
    IF outcome = "resolved" THEN raw ELSE Null

HelperReturn(kind, outcome, raw) ==
    CASE kind = "submit" -> detectLanguage(outcome, raw)
      [] kind = "summarize" -> summarizeText(outcome, raw)
      [] kind = "translate" -> translateText(outcome, raw)

\* The setError calls of the three helpers: the error slot after the helper
\* returned, cur being the slot before. Only part_000 reports to the slot;
\* App.jsx writes to the console.
HelperError(kind, outcome, cur) ==
    IF build = "jsx" \/ outcome = "resolved" THEN cur
    ELSE CASE kind = "submit" /\ outcome = "absent" ->
                "Feature unavailable: Language detection."
           [] kind = "submit" /\ outcome = "raise" ->
                "Could not detect the language. Please try again."
           [] kind = "summarize" /\ outcome = "absent" ->
                "Feature unavailable: Text summarization."
           [] kind = "summarize" /\ outcome = "raise" ->
                "Summarization failed. Please check your input and try again."
           [] kind = "translate" /\ outcome = "absent" ->
                "Feature unavailable: Text translation."
           [] kind = "translate" /\ outcome = "raise" ->
                "Translation failed. Check if the language pair is supported."

\* setError of handleSubmit's validation.
EmptyInputError ==
    IF build = "jsx" THEN "Please enter text before submitting."
    ELSE "Input field is empty. Please enter some text."

----------------------------------------------------------------------------
\* Rendering.

\* Mutant of SummarizeOffered: the length test is >= 150.
SummarizeOfferedFrom150(ref) ==
    /\ Len(heap[ref].text) >= SummarizeMinLen
    /\ heap[ref].detectedLanguage = En

\* msg.text.length > 150 && msg.detectedLanguage === "en": the Summarize
\* button of the message at heap position ref.
SummarizeOffered(ref) ==
    /\ Len(heap[ref].text) > SummarizeMinLen
    /\ heap[ref].detectedLanguage = En

\* messages.map(...) reads msg.text.length of every element (holes are
\* skipped): it throws on an element without a text.
RenderThrows(list, objects) ==
    \E i \in 1..Len(list) :
        list[i] /= Hole /\ "text" \notin DOMAIN objects[list[i]]

----------------------------------------------------------------------------
\* The handlers after their await.

\* newMessage of handleSubmit.
NewMessage(text, detectedLanguage) ==
    IF build = "jsx"
    THEN [text |-> text, detectedLanguage |-> detectedLanguage,
          summary |-> EmptyString, translation |-> EmptyString]
    ELSE [text |-> text,
          detectedLanguage |->
              IF Truthy(detectedLanguage) THEN detectedLanguage ELSE Unknown,
          summary |-> Null, translation |-> Null]

\* The list handleSubmit appends to: App.jsx spreads the `messages` of the
\* render the handler was created in, part_000 the store's current list.
SubmitBase(t) == IF build = "jsx" THEN t.messages ELSE messages

\* Mutant of SubmitContinue: setInputText("") is left out.
SubmitContinueKeepsDraft(t, detectedLanguage) ==
    /\ heap' = Append(heap, NewMessage(t.text, detectedLanguage))
    /\ messages' = Append(SubmitBase(t), Len(heap) + 1)
    /\ UNCHANGED inputText

\* handleSubmit from `const newMessage` on.
SubmitContinue(t, detectedLanguage) ==
    /\ heap' = Append(heap, NewMessage(t.text, detectedLanguage))
    /\ messages' = Append(SubmitBase(t), Len(heap) + 1)
    /\ inputText' = EmptyString

\* setMessages((prevMessages) => { updatedMessages[index] =
\*     { ...updatedMessages[index], [field]: value }; ... })
FunctionalUpdate(t, field, value) ==
    /\ heap' = Append(heap, Spread(At(messages, t.index), field, value))
    /\ messages' = SetAt(messages, t.index, Len(heap) + 1)
    /\ UNCHANGED inputText

\* handleSummarize from `if (summary)` on.
SummarizeContinue(t, summary) ==
    IF Truthy(summary)
    THEN FunctionalUpdate(t, "summary", summary)
    ELSE UNCHANGED <<heap, messages, inputText>>

\* updatedMessages[index].translation = translation, on the object itself.
AssignTranslation(ref, translation) ==
    [heap EXCEPT ![ref] = Spread(ref, "translation", translation)]

\* handleTranslate from `if (translation)` on.
TranslateContinue(t, translation) ==
    IF ~Truthy(translation)
    THEN UNCHANGED <<heap, messages, inputText>>
    ELSE IF build = "jsx"
         THEN /\ heap' = AssignTranslation(t.messages[t.index], translation)
              /\ messages' = t.messages
              /\ UNCHANGED inputText
         ELSE FunctionalUpdate(t, "translation", translation)

\* The history record of a step of handler t.
Event(op, t, outcome, raw, value) ==
    [op |-> op, kind |-> t.kind, index |-> t.index, text |-> t.text,
     targetLang |-> t.targetLang, calls |-> t.calls, outcome |-> outcome,
     raw |-> raw, value |-> value]

\* The helper of task t ended with `outcome` (and raw, what the capability
\* resolved to): the helper returns and the handler runs to its end. cur is
\* the error slot as the handler left it before the helper ran.
Finish(t, outcome, raw, cur) ==
    LET value == HelperReturn(t.kind, outcome, raw)
    IN  /\ error' = HelperError(t.kind, outcome, cur)
        /\ CASE t.kind = "submit" -> SubmitContinue(t, value)
             [] t.kind = "summarize" -> SummarizeContinue(t, value)
             [] t.kind = "translate" -> TranslateContinue(t, value)
        /\ crashed' = RenderThrows(messages', heap')
        /\ last' = Event("done", t, outcome, raw, value)

----------------------------------------------------------------------------
\* The handlers up to their first await.

\* Whether the handler reads the `messages` of its closure after its await:
\* handleSubmit and handleTranslate of App.jsx do.
ReadsMessages(kind) == build = "jsx" /\ kind \in {"submit", "translate"}

\* What the suspended handler holds on to.
NewTask(kind, text, index, sourceLang) ==
    [kind |-> kind, calls |-> 0,
     messages |-> IF ReadsMessages(kind) THEN messages ELSE <<>>,
     text |-> text, index |-> index, sourceLang |-> sourceLang,
     targetLang |-> selectedLanguage]

NoTask == [kind |-> "none", index |-> 0, text |-> EmptyString,
           targetLang |-> EmptyString, calls |-> 0]

\* The bound on handlers that suspend.
MayStart(maxObjects) ==
    /\ Len(tasks) < MaxInFlight
    /\ Len(heap) + Len(tasks) < maxObjects

\* The helper's capability check, and the call of create() when it passes.
Start(t, cur) ==
    IF Supported(Capability(t.kind))
    THEN /\ tasks' = Append(tasks, t)
         /\ error' = cur
         /\ last' = Event("await", t, "pending", Null, Null)
         /\ UNCHANGED <<heap, messages, inputText, crashed>>
    ELSE /\ UNCHANGED tasks
         /\ Finish(t, "absent", Null, cur)

\* onChange of the textarea.
setInputText ==
    /\ ~crashed
    /\ \E v \in Drafts :
        /\ v /= inputText
        /\ inputText' = v
    /\ last' = Event("ui", NoTask, "none", Null, Null)
    /\ UNCHANGED <<build, ai, messages, heap, selectedLanguage, error, tasks,
                   crashed, submitted>>

\* onChange of the <select>.
setSelectedLanguage ==
    /\ ~crashed
    /\ messages /= <<>>
    /\ \E l \in TargetLanguages :
        /\ l /= selectedLanguage
        /\ selectedLanguage' = l
    /\ last' = Event("ui", NoTask, "none", Null, Null)
    /\ UNCHANGED <<build, ai, messages, heap, inputText, error, tasks,
                   crashed, submitted>>

Submit(maxSubmits, maxObjects) ==
    /\ ~crashed
    /\ IF Trim(inputText) = EmptyString
       THEN /\ error' = EmptyInputError
            /\ last' = Event("invalid", NoTask, "none", Null, Null)
            /\ UNCHANGED <<messages, heap, inputText, tasks, crashed,
                           submitted>>
       ELSE /\ MayStart(maxObjects)
            /\ Len(submitted) < maxSubmits
            /\ submitted' = Append(submitted, inputText)
            /\ Start(NewTask("submit", inputText, 0, Null), "")
    /\ UNCHANGED <<build, ai, selectedLanguage>>

handleSubmit == Submit(MaxSubmits, MaxObjects)

Summarize(maxObjects) ==
    /\ ~crashed
    /\ \E index \in 1..Len(messages) :
        /\ SummarizeOffered(messages[index])
        /\ IF ~Truthy(heap[messages[index]].text)
           THEN /\ last' = Event("noop", NoTask, "none", Null, Null)
                /\ UNCHANGED <<messages, heap, inputText, error, tasks,
                               crashed>>
           ELSE /\ MayStart(maxObjects)
                /\ Start(NewTask("summarize", heap[messages[index]].text,
                                 index, Null), error)
    /\ UNCHANGED <<build, ai, selectedLanguage, submitted>>

handleSummarize == Summarize(MaxObjects)

handleTranslate ==
    /\ ~crashed
    /\ \E index \in 1..Len(messages) :
        IF build = "part0" /\ ~Truthy(heap[messages[index]].text)
        THEN /\ last' = Event("noop", NoTask, "none", Null, Null)
             /\ UNCHANGED <<messages, heap, inputText, error, tasks, crashed>>
        ELSE /\ MayStart(MaxObjects)
             /\ Start(NewTask("translate", heap[messages[index]].text, index,
                              heap[messages[index]].detectedLanguage), error)
    /\ UNCHANGED <<build, ai, selectedLanguage, submitted>>

----------------------------------------------------------------------------
\* The external calls settle.

Remove(seq, k) == SubSeq(seq, 1, k - 1) \o SubSeq(seq, k + 1, Len(seq))

\* The capability's method is invoked once create() has resolved.
Invoke(t) == [t EXCEPT !.calls = @ + 1]

\* What the capability's method may resolve to for task t.
Results(t) ==
    CASE t.kind = "submit" -> DetectResults
      [] t.kind = "summarize" -> SummarizeResults(t.text)
      [] t.kind = "translate" ->
            TranslateResults(t.text, t.sourceLang, t.targetLang)

\* await self.ai.<capability>.create(...) throws: the catch block runs.
createRejects ==
    /\ ~crashed
    /\ \E k \in 1..Len(tasks) :
        /\ tasks' = Remove(tasks, k)
        /\ Finish(tasks[k], "raise", Null, error)
    /\ UNCHANGED <<build, ai, selectedLanguage, submitted>>

\* create() resolves and the method (detector.detect, summarizer.summarize,
\* translator.translate) throws. Nothing reads or writes the component's
\* state between the two awaits, so they are one step.
callRejects ==
    /\ ~crashed
    /\ \E k \in 1..Len(tasks) :
        /\ tasks' = Remove(tasks, k)
        /\ Finish(Invoke(tasks[k]), "raise", Null, error)
    /\ UNCHANGED <<build, ai, selectedLanguage, submitted>>

\* create() resolves and the method resolves.
callResolves ==
    /\ ~crashed
    /\ \E k \in 1..Len(tasks) :
        /\ tasks' = Remove(tasks, k)
        /\ \E raw \in Results(tasks[k]) :
                Finish(Invoke(tasks[k]), "resolved", raw, error)
    /\ UNCHANGED <<build, ai, selectedLanguage, submitted>>

----------------------------------------------------------------------------

\* The hosts the model runs in: every capability, the detector alone, none.
Hosts == {Capabilities, {"languageDetector"}, {}}

Init ==
    /\ build \in Builds
    /\ ai \in Hosts
    /\ messages = <<>>
    /\ heap = <<>>
    /\ inputText = EmptyString
    /\ selectedLanguage = En
    /\ error = ""
    /\ tasks = <<>>
    /\ crashed = FALSE
    /\ submitted = <<>>
    /\ last = Event("ui", NoTask, "none", Null, Null)

Next ==
    \/ setInputText
    \/ setSelectedLanguage
    \/ handleSubmit
    \/ handleSummarize
    \/ handleTranslate
    \/ createRejects
    \/ callRejects
    \/ callResolves

Spec == Init /\ [][Next]_vars

----------------------------------------------------------------------------
\* Deeper runs of App.jsx in a host with every capability: three submits,
\* summarize, and calls that resolve.

handleSubmitStale == Submit(MaxSubmitsStale, MaxObjectsStale)

handleSummarizeStale == Summarize(MaxObjectsStale)

InitStale == Init /\ build = "jsx" /\ ai = Capabilities

NextStale ==
    \/ setInputText
    \/ handleSubmitStale
    \/ handleSummarizeStale
    \/ callResolves

SpecStale == InitStale /\ [][NextStale]_vars

----------------------------------------------------------------------------
\* Vocabulary of the properties.

\* A draft that is empty or white space only.
IsBlank(s) == \A i \in 1..Len(s) : s[i] \in Whitespace

\* Field f of the message at position i of a list, Null when there is none.
FieldAt(list, objects, i, f) ==
    IF i \in 1..Len(list) /\ list[i] /= Hole /\ f \in DOMAIN objects[list[i]]
    THEN objects[list[i]][f]
    ELSE Null

\* The texts of a list, in order.
TextsOf(list, objects) ==
    [i \in 1..Len(list) |-> FieldAt(list, objects, i, "text")]

NoSubmitInFlight == \A k \in 1..Len(tasks) : tasks[k].kind /= "submit"

\* The step just taken ended handler `kind`.
Ended(kind) == last'.op = "done" /\ last'.kind = kind

\* The capability of the handler that just ended gave a result.
GaveResult == last'.outcome = "resolved" /\ Truthy(last'.raw)

\* Every field but f of the message at position i is what it was.
OtherFieldsKept(i, f) ==
    \A g \in {"text", "detectedLanguage", "summary", "translation"} \ {f} :
        FieldAt(messages', heap', i, g) = FieldAt(messages, heap, i, g)

\* The message at position i reads the same before and after the step.
MessageKept(i) ==
    \A g \in {"text", "detectedLanguage", "summary", "translation"} :
        FieldAt(messages', heap', i, g) = FieldAt(messages, heap, i, g)

----------------------------------------------------------------------------
\* C1. Once no submit is in flight, the list holds the submitted texts in
\* the order their submits were triggered, whatever the order in which the
\* detection calls completed.
C1_SubmissionOrder ==
    NoSubmitInFlight => TextsOf(messages, heap) = submitted

\* C2. A submit with a draft that is empty or white space only leaves the
\* list (and its messages) unchanged, sets the error slot to a non-empty
\* message, starts no detection call and keeps the draft.
C2_BlankSubmitRejected ==
    [][(IsBlank(inputText) /\ handleSubmit) =>
         /\ messages' = messages
         /\ heap' = heap
         /\ tasks' = tasks
         /\ last'.op = "invalid" /\ last'.calls = 0
         /\ inputText' = inputText
         /\ error' /= ""]_vars

\* A white-space-only draft was submitted and is still in the textarea.
C2_Witness ==
    /\ last.op = "invalid"
    /\ inputText = <<" ">>
    /\ error = EmptyInputError

ToLower(c) == IF c = "U" THEN "u" ELSE c

\* C3. A submit whose detection is absent, raises or gives nothing appends
\* exactly one message, and its detectedLanguage is the sentinel "unknown"
\* (in whichever case it is written).
C3_UndetectedIsUnknown ==
    [][(Ended("submit") /\ ~Truthy(last'.value)) =>
         /\ Len(messages') = Len(messages) + 1
         /\ SubSeq(messages', 1, Len(messages)) = messages
         /\ LET d == FieldAt(messages', heap', Len(messages'),
                             "detectedLanguage")
            IN  [i \in 1..Len(d) |-> ToLower(d[i])] =
                    <<"u", "n", "k", "n", "o", "w", "n">>]_vars

\* C4 as stated. After a submit of non-empty text has completed, the draft
\* and the error slot are empty.
C4_SubmitClearsDraftAndError ==
    (last.op = "done" /\ last.kind = "submit") =>
        (inputText = EmptyString /\ error = "")

\* C4 amended. A submit of non-empty text empties the error slot when it is
\* triggered; when it completes the draft is empty, and the error slot is
\* as the completion found it, except that part_000 reports a detection
\* capability that was absent or raised in the slot.
C4_SubmitClearsDraft ==
    [][(last'.kind = "submit" /\ last'.op \in {"await", "done"}) =>
         /\ last'.op = "await" => error' = "" /\ inputText' = inputText
         /\ last'.op = "done" =>
              /\ inputText' = EmptyString
              /\ IF build = "part0" /\ last'.outcome /= "resolved"
                 THEN error' /= ""
                 ELSE error' = IF last'.outcome = "absent" THEN "" ELSE error
        ]_vars

\* A submit completed with a detected language: draft and slot are empty.
C4_Witness ==
    /\ last.op = "done" /\ last.kind = "submit"
    /\ last.outcome = "resolved"
    /\ Len(messages) = 2
    /\ inputText = EmptyString
    /\ error = ""

\* C5. When a successful summarize(i) applies its result, the summary of
\* message i is the result, the list is as long as it was, and every other
\* field of every message is what it was just before.
C5_SummarizeFrame ==
    [][(Ended("summarize") /\ GaveResult) =>
         /\ Len(messages') = Len(messages)
         /\ FieldAt(messages', heap', last'.index, "summary") = last'.raw
         /\ OtherFieldsKept(last'.index, "summary")
         /\ \A j \in 1..Len(messages) : j /= last'.index => MessageKept(j)
        ]_vars

\* C6. When the summarization capability is absent, raises or gives no
\* result, the summary of the message is what it was (nothing is stored),
\* the error slot holds a message, and the capability was invoked at most
\* once.
C6_FailedSummarizeStoresNothing ==
    [][(Ended("summarize") /\ ~GaveResult) =>
         /\ FieldAt(messages', heap', last'.index, "summary") =
                FieldAt(messages, heap, last'.index, "summary")
         /\ error' /= ""
         /\ last'.calls <= 1]_vars

\* C7. When the translation capability is absent or raises, the
\* translation of the message is what it was and the error slot holds a
\* message.
C7_FailedTranslateReported ==
    [][(Ended("translate") /\ last'.outcome \in {"absent", "raise"}) =>
         /\ FieldAt(messages', heap', last'.index, "translation") =
                FieldAt(messages, heap, last'.index, "translation")
         /\ error' /= ""]_vars

\* C8. When a translate(i) that got a result completes, the translation of
\* message i is that call's result alone: the text of the message put into
\* the language selected when the call was triggered, whatever translation
\* the message had before.
C8_TranslateOverwrites ==
    [][(Ended("translate") /\ GaveResult) =>
         /\ FieldAt(messages', heap', last'.index, "translation") = last'.raw
         /\ last'.raw = <<"T">> \o last'.targetLang \o last'.text]_vars

\* A translate completed on a message that had another translation.
C8_Witness ==
    /\ last.op = "done" /\ last.kind = "translate"
    /\ last.outcome = "resolved" /\ Truthy(last.raw)
    /\ FieldAt(messages, heap, last.index, "translation") = last.raw
    /\ \E ref \in 1..Len(heap) :
         /\ heap[ref].text = last.text
         /\ Truthy(heap[ref].translation)
         /\ heap[ref].translation /= last.raw

\* C9. Summarize is offered for a message exactly when its text is longer
\* than 150 characters and its detected language is "en"; so every
\* summarize that runs is for a text of more than 150 characters.
C9_SummarizeOfferedIff ==
    /\ ~crashed =>
         \A i \in 1..Len(messages) :
           SummarizeOffered(messages[i]) <=>
             /\ Len(heap[messages[i]].text) >= 151
             /\ heap[messages[i]].detectedLanguage = <<"e", "n">>
    /\ \A k \in 1..Len(tasks) :
         tasks[k].kind = "summarize" => Len(tasks[k].text) >= 151
    /\ last.kind = "summarize" => Len(last.text) >= 151

\* An English text of exactly 150 characters is in the list while a
\* summarize of another message runs.
C9_Witness ==
    /\ \E i \in 1..Len(messages) :
         /\ Len(heap[messages[i]].text) = 150
         /\ heap[messages[i]].detectedLanguage = En
    /\ \E k \in 1..Len(tasks) : tasks[k].kind = "summarize"

\* C10. The list never gets shorter, and a position that holds a message
\* keeps its text and its detected language.
C10_AppendOnly ==
    [][/\ Len(messages') >= Len(messages)
       /\ \A i \in 1..Len(messages) :
            /\ FieldAt(messages', heap', i, "text") =
                   FieldAt(messages, heap, i, "text")
            /\ FieldAt(messages', heap', i, "detectedLanguage") =
                   FieldAt(messages, heap, i, "detectedLanguage")]_vars

\* C11. A summarize and a translate of the same message that were in
\* flight together and both got a result leave both results on the
\* message: the one that completes second keeps what the first stored.
C11_ConcurrentUpdatesMerge ==
    [][/\ (/\ Ended("translate") /\ GaveResult
           /\ FieldAt(messages, heap, last'.index, "summary") =
                  SummaryOf(last'.text)) =>
            /\ FieldAt(messages', heap', last'.index, "summary") =
                   SummaryOf(last'.text)
            /\ FieldAt(messages', heap', last'.index, "translation") =
                   last'.raw
       /\ (/\ Ended("summarize") /\ GaveResult
           /\ \E l \in TargetLanguages :
                FieldAt(messages, heap, last'.index, "translation") =
                    <<"T">> \o l \o last'.text) =>
            /\ FieldAt(messages', heap', last'.index, "translation") =
                   FieldAt(messages, heap, last'.index, "translation")
            /\ FieldAt(messages', heap', last'.index, "summary") =
                   last'.raw]_vars

\* C12. The completion of a summarize or of a translate keeps every message
\* the list holds at that moment, those appended while it was in flight
\* included: the list is as long as before and holds the same texts.
C12_UpdateKeepsAppended ==
    [][(Ended("summarize") \/ Ended("translate")) =>
         /\ Len(messages') = Len(messages)
         /\ TextsOf(messages', heap') = TextsOf(messages, heap)]_vars

\* C13. No step changes a message object that exists: an update puts a new
\* object in the list and leaves the objects of earlier lists as they were.
C13_CopyOnWrite ==
    [][\A ref \in 1..Len(heap) : heap'[ref] = heap[ref]]_vars

\* C14. The error slot holds the message of the most recent error: a blank
\* submit, an absent capability and a call that raised each put their
\* message in it; no step of summarize or translate empties it; only a
\* submit of non-empty text does.
C14_ErrorSlot ==
    [][/\ last'.op = "invalid" => error' = EmptyInputError
       /\ (last'.op = "done" /\ last'.outcome \in {"absent", "raise"}) =>
            error' /= ""
       /\ (last'.kind \in {"summarize", "translate"} /\ error /= "") =>
            error' /= ""
       /\ (error /= "" /\ error' = "") =>
            (last'.kind = "submit" /\ ~IsBlank(last'.text))]_vars

\* The values a summary may hold without having been computed from a text:
\* the initial ones and the helper's placeholders.
NoSummary ==
    {Null, EmptyString, <<"Error in summarization">>,
     <<"Summarization failed">>, <<"Failed to generate summary.">>}

\* C15. A summary stored on a message is the summary of that message's
\* text, and a translation stored on it is a translation of that text into
\* a selectable language.
C15_ResultsBelongToText ==
    \A i \in 1..Len(messages) :
        LET text == FieldAt(messages, heap, i, "text")
        IN  /\ FieldAt(messages, heap, i, "summary") \in
                 NoSummary \cup {SummaryOf(text)}
            /\ FieldAt(messages, heap, i, "translation") \in
                 {Null, EmptyString} \cup
                 {<<"T">> \o l \o text : l \in TargetLanguages}

\* The number of positions of seq that hold v.
Count(seq, v) == Cardinality({i \in 1..Len(seq) : seq[i] = v})

\* The texts of the submits still in flight, oldest first.
InFlightTexts ==
    [k \in 1..Len(tasks) |->
        IF tasks[k].kind = "submit" THEN tasks[k].text ELSE Null]

\* C16. Every submit of a non-empty draft is either still in flight or has
\* exactly one message in the list with the text of the draft as it was
\* when the submit was triggered: none is lost, none is duplicated.
C16_SubmitAppendsOnce ==
    \A v \in Drafts :
        Count(TextsOf(messages, heap), v) + Count(InFlightTexts, v) =
            Count(submitted, v)

\* C17. Every message of the list has a text, and the text is non-empty
\* after trimming; the empty-text branch of handleSummarize and of
\* handleTranslate has never been taken.
C17_TextsNotBlank ==
    /\ \A i \in 1..Len(messages) :
         /\ FieldAt(messages, heap, i, "text") /= Null
         /\ ~IsBlank(FieldAt(messages, heap, i, "text"))
    /\ last.op /= "noop"

====
